---------------------------- MODULE Spec2Model ----------------------------
(***************************************************************************)
(* Model of corgi's config package (src/config/config.go): the bootstrap   *)
(* of the per-user configuration file.                                     *)
(*                                                                         *)
(* Strings are sequences of units.  A unit is a chunk of plain text (for a *)
(* path: one path component), or one of the special units below.  A file   *)
(* system is a function from paths (sequences of components below the      *)
(* config home) to entries.  The process is not the super-user: directory  *)
(* permission bits are enforced.                                           *)
(***************************************************************************)
EXTENDS Naturals, Sequences, FiniteSets, TLC

VARIABLES env, fs, last, prev

vars == <<env, fs, last, prev>>

-----------------------------------------------------------------------------
(* Strings and their JSON encoding (encoding/json, config.go:169 and the   *)
(* JSON load helper).                                                      *)

\* a byte that is not valid UTF-8
BadByte == "<0xFF>"
\* the Unicode replacement character U+FFFD
ReplChar == "<U+FFFD>"
\* a double quote
Quote == "<quote>"
\* JSON text: an escaped double quote, and the six-character escape for U+FFFD
EscQuote == "<backslash-quote>"
EscRepl == "<backslash-ufffd>"

EmptyStr == <<>>

\* json.Marshal of a string: a quote is escaped, invalid UTF-8 is written as
\* the escape for U+FFFD, everything else is copied
EncodeUnit(u) ==
  IF u = Quote THEN EscQuote
  ELSE IF u = BadByte THEN EscRepl
  ELSE u

EncodeString(s) == [i \in 1..Len(s) |-> EncodeUnit(s[i])]

\* json.Unmarshal of a string literal: escapes are decoded, invalid UTF-8 is
\* replaced by U+FFFD
DecodeUnit(t) ==
  IF t = EscQuote THEN Quote
  ELSE IF t = EscRepl THEN ReplChar
  ELSE IF t = BadByte THEN ReplChar
  ELSE t

DecodeString(t) == [i \in 1..Len(t) |-> DecodeUnit(t[i])]

-----------------------------------------------------------------------------
(* Config (config.go:16-21) and the content of a file.                     *)

NewConfig ==
  [SnippetsFile |-> EmptyStr, SnippetsDir |-> EmptyStr,
   Editor |-> EmptyStr, FilterCmd |-> EmptyStr]

\* a slip in IsNew: the comparisons inverted
IsNewInverted(c) ==
  c.SnippetsFile # EmptyStr /\ c.SnippetsDir # EmptyStr
    /\ c.Editor # EmptyStr /\ c.FilterCmd # EmptyStr

IsNew(c) ==
  c.SnippetsFile = EmptyStr /\ c.SnippetsDir = EmptyStr
    /\ c.Editor = EmptyStr /\ c.FilterCmd = EmptyStr

\* file content: no bytes at all, bytes that are no JSON object, or a JSON
\* object with the four keys (each value in its encoded form)
EmptyData ==
  [tag |-> "empty", snippets_file |-> <<>>, snippets_dir |-> <<>>,
   editor |-> <<>>, filter_cmd |-> <<>>]

MalformedData ==
  [tag |-> "malformed", snippets_file |-> <<>>, snippets_dir |-> <<>>,
   editor |-> <<>>, filter_cmd |-> <<>>]

\* a slip in the struct tags: editor and filter_cmd exchanged
MarshalIndentSwapped(c) ==
  [tag |-> "json",
   snippets_file |-> EncodeString(c.SnippetsFile),
   snippets_dir |-> EncodeString(c.SnippetsDir),
   editor |-> EncodeString(c.FilterCmd),
   filter_cmd |-> EncodeString(c.Editor)]

\* json.MarshalIndent of a Config
MarshalIndent(c) ==
  [tag |-> "json",
   snippets_file |-> EncodeString(c.SnippetsFile),
   snippets_dir |-> EncodeString(c.SnippetsDir),
   editor |-> EncodeString(c.Editor),
   filter_cmd |-> EncodeString(c.FilterCmd)]

\* json.Unmarshal of a JSON object into a Config
Unmarshal(d) ==
  [SnippetsFile |-> DecodeString(d.snippets_file),
   SnippetsDir |-> DecodeString(d.snippets_dir),
   Editor |-> DecodeString(d.editor),
   FilterCmd |-> DecodeString(d.filter_cmd)]

-----------------------------------------------------------------------------
(* The file system.                                                        *)

\* the working directory (of a relative path) or the root above the config
\* home: it exists and can be searched and written
Top == <<>>

Parent(p) == SubSeq(p, 1, Len(p) - 1)

Absent == [kind |-> "absent", open |-> FALSE, data |-> EmptyData]
Dir(open) == [kind |-> "dir", open |-> open, data |-> EmptyData]
File(data) == [kind |-> "file", open |-> FALSE, data |-> data]

Entry(f, p) == IF p = Top THEN Dir(TRUE) ELSE f[p]

\* permission bits: the owner may search and write a directory made with
\* them, or may not
PermOpen == "0755"
PermNone == "0000"
Perms == {PermOpen, PermNone}
OwnerMayUse(perm) == perm = PermOpen

NoErr == ""

\* the error of walking down to p's parent: the first ancestor that is
\* missing, not a directory, or not searchable
RECURSIVE WalkErr(_, _)
WalkErr(f, p) ==
  IF p = Top THEN NoErr
  ELSE LET up == WalkErr(f, Parent(p))
           e == Entry(f, Parent(p))
       IN IF up # NoErr THEN up
          ELSE IF e.kind = "absent" THEN "ENOENT"
          ELSE IF e.kind = "file" THEN "ENOTDIR"
          ELSE IF ~e.open THEN "EACCES"
          ELSE NoErr

\* os.Stat
Stat(f, p) ==
  LET w == WalkErr(f, p)
  IN IF w # NoErr THEN [err |-> w, kind |-> "absent"]
     ELSE IF Entry(f, p).kind = "absent" THEN [err |-> "ENOENT", kind |-> "absent"]
     ELSE [err |-> NoErr, kind |-> Entry(f, p).kind]

\* a slip in the existence test: any error of Stat taken for "not there"
IsNotExistAnyErr(err) == err # NoErr

\* os.IsNotExist
IsNotExist(err) == err = "ENOENT"

\* os.Mkdir; fault: the system call fails for a reason outside the model
Mkdir(f, p, perm, fault) ==
  LET w == WalkErr(f, p)
  IN IF fault THEN [fs |-> f, err |-> "EIO"]
     ELSE IF w # NoErr THEN [fs |-> f, err |-> w]
     ELSE IF Entry(f, p).kind # "absent" THEN [fs |-> f, err |-> "EEXIST"]
     ELSE [fs |-> [f EXCEPT ![p] = Dir(OwnerMayUse(perm))], err |-> NoErr]

\* os.MkdirAll; failAt: which of its Mkdir calls fails (0: none).  calls
\* counts the Mkdir calls made.
MkdirAllMade(before, mk, ls, calls) ==
  IF mk.err # NoErr /\ ls.err = NoErr /\ ls.kind = "dir"
  THEN [fs |-> before, calls |-> calls, err |-> NoErr]
  ELSE [fs |-> mk.fs, calls |-> calls, err |-> mk.err]

MkdirAllBelow(up, p, perm, failAt) ==
  IF up.err # NoErr THEN up
  ELSE MkdirAllMade(up.fs, Mkdir(up.fs, p, perm, up.calls + 1 = failAt),
                    Stat(up.fs, p), up.calls + 1)

RECURSIVE MkdirAll(_, _, _, _)
MkdirAllStat(st, f, p, perm, failAt) ==
  IF st.err = NoErr
  THEN [fs |-> f, calls |-> 0, err |-> IF st.kind = "dir" THEN NoErr ELSE "ENOTDIR"]
  ELSE MkdirAllBelow(IF Len(p) > 1 THEN MkdirAll(f, Parent(p), perm, failAt)
                     ELSE [fs |-> f, calls |-> 0, err |-> NoErr],
                     p, perm, failAt)

MkdirAll(f, p, perm, failAt) == MkdirAllStat(Stat(f, p), f, p, perm, failAt)

\* os.Create: the file is made, or truncated
Create(f, p, fault) ==
  LET w == WalkErr(f, p)
      e == Entry(f, p)
  IN IF fault THEN [fs |-> f, err |-> "EIO"]
     ELSE IF w # NoErr THEN [fs |-> f, err |-> w]
     ELSE IF e.kind = "dir" THEN [fs |-> f, err |-> "EISDIR"]
     ELSE IF e.kind = "absent" /\ ~Entry(f, Parent(p)).open
       THEN [fs |-> f, err |-> "EACCES"]
     ELSE [fs |-> [f EXCEPT ![p] = File(EmptyData)], err |-> NoErr]

\* ioutil.WriteFile: open with O_CREATE|O_TRUNC, write, close.  fault:
\* "open" (the open fails, nothing changes), "none-written" (the write
\* fails on the truncated file), "partial" (the write stops part-way)
WriteFile(f, p, data, fault) ==
  LET w == WalkErr(f, p)
      e == Entry(f, p)
  IN IF fault = "open" THEN [fs |-> f, err |-> "EIO"]
     ELSE IF w # NoErr THEN [fs |-> f, err |-> w]
     ELSE IF e.kind = "dir" THEN [fs |-> f, err |-> "EISDIR"]
     ELSE IF e.kind = "absent" /\ ~Entry(f, Parent(p)).open
       THEN [fs |-> f, err |-> "EACCES"]
     ELSE IF fault = "none-written"
       THEN [fs |-> [f EXCEPT ![p] = File(EmptyData)], err |-> "EIO"]
     ELSE IF fault = "partial"
       THEN [fs |-> [f EXCEPT ![p] = File(MalformedData)], err |-> "EIO"]
     ELSE [fs |-> [f EXCEPT ![p] = File(data)], err |-> NoErr]

\* ioutil.ReadFile
ReadFile(f, p, fault) ==
  LET st == Stat(f, p)
  IN IF st.err # NoErr THEN [data |-> EmptyData, err |-> st.err]
     ELSE IF st.kind = "dir" THEN [data |-> EmptyData, err |-> "EISDIR"]
     ELSE IF fault THEN [data |-> EmptyData, err |-> "EIO"]
     ELSE [data |-> Entry(f, p).data, err |-> NoErr]

-----------------------------------------------------------------------------
(* config.go                                                               *)

DEFAULT_CONFIG_FILE == <<".corgi", "corgi_conf.json">>
DEFAULT_SNIPPETS_DIR == <<".corgi", "snippets">>
DEFAULT_SNIPPETS_FILE == <<".corgi", "snippets.json">>
DEFAULT_EDITOR == "vim"
DEFAULT_FILTER_CMD_FZF == "fzf"
DEFAULT_FILTER_CMD_PECO == "peco"

MissingDefaultFilterCmdError == "missing default filter cmd"

\* how deep in a MkdirAll the failing Mkdir call may be
MaxMkdirFault == 2

\* a fault: what fails, and for a Mkdir which call of the MkdirAll
NoFault == [kind |-> "none", at |-> 0]
Fault(kind) == [kind |-> kind, at |-> 0]

\* the faults of one getOrCreatePath call: none, a Mkdir of its MkdirAll
\* fails, or its Create fails
PathFaults ==
  {NoFault, Fault("create")} \cup {[kind |-> "mkdir", at |-> k] : k \in 1..MaxMkdirFault}

FailAt(flt) == IF flt.kind = "mkdir" THEN flt.at ELSE 0

\* after os.MkdirAll: the file is made unless loc is a directory
getOrCreatePathMade(mk, loc, isDir, flt) ==
  IF mk.err # NoErr THEN [fs |-> mk.fs, err |-> mk.err]
  ELSE IF ~isDir THEN Create(mk.fs, loc, flt.kind = "create")
  ELSE [fs |-> mk.fs, err |-> NoErr]

\* a slip in getOrCreatePath: no existence test, the path is always made
getOrCreatePathAlways(f, loc, perm, isDir, flt) ==
  getOrCreatePathMade(MkdirAll(f, IF isDir THEN loc ELSE Parent(loc), perm,
                               FailAt(flt)),
                      loc, isDir, flt)

getOrCreatePath(f, loc, perm, isDir, flt) ==
  LET dirPath == IF isDir THEN loc ELSE Parent(loc)
  IN IF IsNotExist(Stat(f, loc).err)
     THEN getOrCreatePathMade(MkdirAll(f, dirPath, perm, FailAt(flt)),
                              loc, isDir, flt)
     ELSE [fs |-> f, err |-> NoErr]

\* os.Getenv: the empty string when the variable is not set
Getenv(e, name) == IF e[name].set THEN e[name].value ELSE EmptyStr

GetDefaultConfigHome(e) ==
  IF e.GOOS = "darwin" THEN Getenv(e, "HOME")
  ELSE IF e.GOOS = "linux"
    THEN IF Getenv(e, "XDG_CONFIG_HOME") = EmptyStr THEN Getenv(e, "HOME")
         ELSE Getenv(e, "XDG_CONFIG_HOME")
  ELSE EmptyStr

\* path.Join(configHome, <a relative path>)
PathJoin(configHome, rel) == configHome \o rel

\* what the three GetDefault functions of a location return
Located(r, loc) ==
  IF r.err # NoErr THEN [fs |-> r.fs, path |-> EmptyStr, err |-> r.err]
  ELSE [fs |-> r.fs, path |-> loc, err |-> NoErr]

GetDefaultConfigFile(f, configHome, flt) ==
  Located(getOrCreatePath(f, PathJoin(configHome, DEFAULT_CONFIG_FILE),
                          PermOpen, FALSE, flt),
          PathJoin(configHome, DEFAULT_CONFIG_FILE))

GetDefaultSnippetsDir(f, configHome, flt) ==
  Located(getOrCreatePath(f, PathJoin(configHome, DEFAULT_SNIPPETS_DIR),
                          PermOpen, TRUE, flt),
          PathJoin(configHome, DEFAULT_SNIPPETS_DIR))

GetDefaultSnippetsFile(f, configHome, flt) ==
  Located(getOrCreatePath(f, PathJoin(configHome, DEFAULT_SNIPPETS_FILE),
                          PermOpen, FALSE, flt),
          PathJoin(configHome, DEFAULT_SNIPPETS_FILE))

\* exec.LookPath: the executables of e.PATH resolve
LookPath(e, name) ==
  IF name \in e.PATH THEN [path |-> <<"/usr/bin", name>>, err |-> NoErr]
  ELSE [path |-> EmptyStr, err |-> "executable file not found in $PATH"]

\* a slip in GetDefaultEditor: the failed lookup of vim not checked
GetDefaultEditorUnchecked(e) ==
  IF ~e["EDITOR"].set
  THEN [path |-> LookPath(e, DEFAULT_EDITOR).path, err |-> NoErr]
  ELSE [path |-> e["EDITOR"].value, err |-> NoErr]

GetDefaultEditor(e) ==
  LET lp == LookPath(e, DEFAULT_EDITOR)
  IN IF ~e["EDITOR"].set
     THEN IF lp.err # NoErr
          THEN [path |-> EmptyStr, err |-> "could not find vim (default) in $PATH"]
          ELSE [path |-> lp.path, err |-> NoErr]
     ELSE [path |-> e["EDITOR"].value, err |-> NoErr]

\* GetDefaultFilterCmd with peco's path kept when fzf does not resolve
GetDefaultFilterCmdKeepsPeco(e) ==
  LET peco == LookPath(e, DEFAULT_FILTER_CMD_PECO)
      fzf == LookPath(e, DEFAULT_FILTER_CMD_FZF)
      filterCmdPath == IF fzf.err = NoErr THEN fzf.path
                       ELSE IF peco.err = NoErr THEN peco.path ELSE EmptyStr
  IN IF filterCmdPath = EmptyStr
     THEN [path |-> EmptyStr, err |-> MissingDefaultFilterCmdError]
     ELSE [path |-> filterCmdPath, err |-> NoErr]

\* GetDefaultFilterCmd returning the lookup's own error, not the sentinel
GetDefaultFilterCmdLookupErr(e) ==
  LET fzf == LookPath(e, DEFAULT_FILTER_CMD_FZF)
  IN IF fzf.err # NoErr THEN [path |-> EmptyStr, err |-> fzf.err]
     ELSE [path |-> fzf.path, err |-> NoErr]

\* first is what line 104-107 leave in filterCmdPath; line 108 assigns
\* filterCmdPath again, so first is never read
GetDefaultFilterCmd(e) ==
  LET peco == LookPath(e, DEFAULT_FILTER_CMD_PECO)
      first == IF peco.err # NoErr THEN EmptyStr ELSE peco.path
      fzf == LookPath(e, DEFAULT_FILTER_CMD_FZF)
      filterCmdPath == IF fzf.err # NoErr THEN EmptyStr ELSE fzf.path
  IN IF filterCmdPath = EmptyStr
     THEN [path |-> EmptyStr, err |-> MissingDefaultFilterCmdError]
     ELSE [path |-> filterCmdPath, err |-> NoErr]

\* util.LoadJsonDataFromFile: read the file and deserialize it into the
\* Config; an empty file is no data and leaves the Config as it is
LoadJsonDataFromFile(f, p, c, fault) ==
  LET rd == ReadFile(f, p, fault)
  IN IF rd.err # NoErr THEN [config |-> c, err |-> rd.err, read |-> FALSE]
     ELSE IF rd.data.tag = "empty" THEN [config |-> c, err |-> NoErr, read |-> TRUE]
     ELSE IF rd.data.tag = "malformed"
       THEN [config |-> c, err |-> "unexpected end of JSON input", read |-> TRUE]
     ELSE [config |-> Unmarshal(rd.data), err |-> NoErr, read |-> TRUE]

\* the faults of one Save call: in its getOrCreatePath, or in its WriteFile
WriteFaults == {Fault("open"), Fault("none-written"), Fault("partial")}
SaveFaults == PathFaults \cup WriteFaults

WriteFault(flt) == IF flt \in WriteFaults THEN flt.kind ELSE "none"
PathFault(flt) == IF flt \in PathFaults THEN flt ELSE NoFault

\* a slip in Save: the data is serialized and never written
SaveNoWrite(f, e, c, flt) ==
  [fs |-> GetDefaultConfigFile(f, GetDefaultConfigHome(e), PathFault(flt)).fs,
   err |-> GetDefaultConfigFile(f, GetDefaultConfigHome(e), PathFault(flt)).err]

\* Save once the config file is located
SaveTo(cf, c, flt) ==
  IF cf.err # NoErr THEN [fs |-> cf.fs, err |-> cf.err]
  ELSE WriteFile(cf.fs, cf.path, MarshalIndent(c), WriteFault(flt))

Save(f, e, c, flt) ==
  SaveTo(GetDefaultConfigFile(f, GetDefaultConfigHome(e), PathFault(flt)), c, flt)

\* the faults of one Load call: at most one file-system call of one of its
\* steps fails (every failure but that of the last step ends the call)
LoadFaults ==
  {[step |-> "none", fault |-> NoFault], [step |-> "read", fault |-> Fault("read")]}
    \cup [step : {"configFile", "snippetsFile", "snippetsDir"},
          fault : PathFaults \ {NoFault}]
    \cup [step : {"save"}, fault : SaveFaults \ {NoFault}]

FaultOf(flt, step) == IF flt.step = step THEN flt.fault ELSE NoFault

\* a step of Load with the error it returned
Ran(step, err) == [step |-> step, err |-> err]

\* Load's result: the file system it leaves, its error (NoErr: a Config is
\* returned), the Config, the steps it ran, and those whose file-system call
\* failed.  Load is written as its steps in the order of the code, each
\* handing what it computed to the next.
LoadFailed(g, err, steps, failed) ==
  [fs |-> g, err |-> err, config |-> NewConfig, steps |-> steps, failed |-> failed]

\* config.Save(), its error dropped, and return config, nil
LoadSave(sv, config, steps) ==
  [fs |-> sv.fs, err |-> NoErr, config |-> config,
   steps |-> Append(steps, Ran("save", sv.err)),
   failed |-> IF sv.err # NoErr THEN {"save"} ELSE {}]

\* set default filter cmd
LoadFilterCmd(g, fc, config, steps, e, flt) ==
  IF fc.err # NoErr /\ fc.err # MissingDefaultFilterCmdError
  THEN LoadFailed(g, fc.err, Append(steps, Ran("filterCmd", fc.err)), {})
  ELSE LoadSave(Save(g, e, [config EXCEPT !.FilterCmd = fc.path],
                     FaultOf(flt, "save")),
                [config EXCEPT !.FilterCmd = fc.path],
                Append(steps, Ran("filterCmd", fc.err)))

\* set default editor
LoadEditor(g, ed, config, steps, e, flt) ==
  IF ed.err # NoErr
  THEN LoadFailed(g, ed.err, Append(steps, Ran("editor", ed.err)), {})
  ELSE LoadFilterCmd(g, GetDefaultFilterCmd(e),
                     [config EXCEPT !.Editor = ed.path],
                     Append(steps, Ran("editor", ed.err)), e, flt)

\* set default snippets dir
LoadSnippetsDir(sd, config, steps, e, flt) ==
  IF sd.err # NoErr
  THEN LoadFailed(sd.fs, sd.err, Append(steps, Ran("snippetsDir", sd.err)),
                  {"snippetsDir"})
  ELSE LoadEditor(sd.fs, GetDefaultEditor(e),
                  [config EXCEPT !.SnippetsDir = sd.path],
                  Append(steps, Ran("snippetsDir", sd.err)), e, flt)

\* set default snippets file
LoadSnippetsFile(sf, config, steps, e, flt) ==
  IF sf.err # NoErr
  THEN LoadFailed(sf.fs, sf.err, Append(steps, Ran("snippetsFile", sf.err)),
                  {"snippetsFile"})
  ELSE LoadSnippetsDir(GetDefaultSnippetsDir(sf.fs, GetDefaultConfigHome(e),
                                             FaultOf(flt, "snippetsDir")),
                       [config EXCEPT !.SnippetsFile = sf.path],
                       Append(steps, Ran("snippetsFile", sf.err)), e, flt)

\* the outcome of util.LoadJsonDataFromFile, and config.IsNew()
LoadParsed(g, ld, steps, e, flt) ==
  IF ld.err # NoErr
  THEN LoadFailed(g, ld.err, Append(steps, Ran("read", ld.err)),
                  IF ld.read THEN {} ELSE {"read"})
  ELSE IF ~IsNew(ld.config)
  THEN [fs |-> g, err |-> NoErr, config |-> ld.config,
        steps |-> Append(steps, Ran("read", ld.err)), failed |-> {}]
  ELSE LoadSnippetsFile(GetDefaultSnippetsFile(g, GetDefaultConfigHome(e),
                                               FaultOf(flt, "snippetsFile")),
                        ld.config, Append(steps, Ran("read", ld.err)), e, flt)

\* the outcome of GetDefaultConfigFile
LoadConfigFile(cf, e, flt) ==
  IF cf.err # NoErr
  THEN LoadFailed(cf.fs, cf.err, <<Ran("configFile", cf.err)>>, {"configFile"})
  ELSE LoadParsed(cf.fs,
                  LoadJsonDataFromFile(cf.fs, cf.path, NewConfig,
                                       flt.step = "read"),
                  <<Ran("configFile", cf.err)>>, e, flt)

Load(f, e, flt) ==
  LoadConfigFile(GetDefaultConfigFile(f, GetDefaultConfigHome(e),
                                      FaultOf(flt, "configFile")), e, flt)

-----------------------------------------------------------------------------
(* The state: the process environment, the file system below the config    *)
(* home, the last call (with the file system it started from) and a        *)
(* summary of the call before it.                                          *)

Unset == [set |-> FALSE, value |-> EmptyStr]
SetTo(v) == [set |-> TRUE, value |-> v]

\* the operating system and the two directory variables
HomeEnvs ==
  { [GOOS |-> "darwin", HOME |-> SetTo(<<"/Users/u">>), XDG_CONFIG_HOME |-> Unset],
    [GOOS |-> "linux", HOME |-> SetTo(<<"/home/u">>), XDG_CONFIG_HOME |-> SetTo(<<"/xdg">>)],
    [GOOS |-> "linux", HOME |-> SetTo(<<"/home/u">>), XDG_CONFIG_HOME |-> Unset],
    [GOOS |-> "windows", HOME |-> SetTo(<<"/home/u">>), XDG_CONFIG_HOME |-> Unset] }

EditorEnvs ==
  {Unset, SetTo(EmptyStr), SetTo(<<"/usr/bin", "nano">>), SetTo(<<"/opt", BadByte>>)}

Executables == {DEFAULT_EDITOR, DEFAULT_FILTER_CMD_PECO, DEFAULT_FILTER_CMD_FZF}

Envs ==
  { [GOOS |-> h.GOOS, HOME |-> h.HOME, XDG_CONFIG_HOME |-> h.XDG_CONFIG_HOME,
     EDITOR |-> ed, PATH |-> path] :
      h \in HomeEnvs, ed \in EditorEnvs, path \in SUBSET Executables }

\* the Config values handed to Save
Configs ==
  { NewConfig,
    [SnippetsFile |-> <<"/a">>, SnippetsDir |-> <<"/b">>,
     Editor |-> <<"/c">>, FilterCmd |-> <<"/d">>],
    [SnippetsFile |-> <<"/a">>, SnippetsDir |-> <<"/b">>,
     Editor |-> <<"/my ", Quote, "ed", Quote>>, FilterCmd |-> EmptyStr],
    [SnippetsFile |-> <<"/a">>, SnippetsDir |-> <<"/b">>,
     Editor |-> <<"/opt", BadByte>>, FilterCmd |-> <<"/d">>] }

\* the config file's content before the program first runs: nothing, a cut
\* document, and documents setting all, some and none of the four keys
ConfDatas ==
  { EmptyData, MalformedData,
    [tag |-> "json", snippets_file |-> <<"/a">>, snippets_dir |-> <<"/b">>,
     editor |-> <<"/c">>, filter_cmd |-> <<"/d">>],
    [tag |-> "json", snippets_file |-> <<>>, snippets_dir |-> <<>>,
     editor |-> <<"my ", EscQuote, "ed", EscQuote>>, filter_cmd |-> <<>>],
    [tag |-> "json", snippets_file |-> <<>>, snippets_dir |-> <<>>,
     editor |-> <<>>, filter_cmd |-> <<>>] }

\* the paths below the config home
Paths(configHome) ==
  (IF configHome = EmptyStr THEN {} ELSE {configHome})
    \cup {PathJoin(configHome, <<".corgi">>),
          PathJoin(configHome, DEFAULT_CONFIG_FILE),
          PathJoin(configHome, DEFAULT_SNIPPETS_FILE),
          PathJoin(configHome, DEFAULT_SNIPPETS_DIR)}

ConfigFilePath(e) == PathJoin(GetDefaultConfigHome(e), DEFAULT_CONFIG_FILE)

\* a path exists only in a directory; only the config file has content
WellFormed(f, configHome) ==
  \A p \in DOMAIN f :
    /\ f[p].kind # "absent" => Entry(f, Parent(p)).kind = "dir"
    /\ f[p].data # EmptyData => p = PathJoin(configHome, DEFAULT_CONFIG_FILE)

\* the file systems in which the directories have their permissions among
\* opens, the config file its content among datas, and, with mixed, a file
\* may stand where a directory is expected and a directory where a file is
FileSystems(configHome, opens, datas, mixed) ==
  LET isDirPath(p) ==
        p \in {configHome, PathJoin(configHome, <<".corgi">>),
               PathJoin(configHome, DEFAULT_SNIPPETS_DIR)}
      entries(p) ==
        {Absent}
          \cup (IF mixed \/ isDirPath(p) THEN {Dir(o) : o \in opens} ELSE {})
          \cup (IF p = PathJoin(configHome, DEFAULT_CONFIG_FILE)
                  THEN {File(d) : d \in datas}
                ELSE IF mixed \/ ~isDirPath(p) THEN {File(EmptyData)}
                ELSE {})
  IN { f \in [Paths(configHome) ->
                {Absent} \cup {Dir(o) : o \in opens} \cup {File(d) : d \in datas}] :
         WellFormed(f, configHome) /\ \A p \in DOMAIN f : f[p] \in entries(p) }

\* a call: the operation, its arguments (loc, perm, isDir of getOrCreatePath,
\* arg: Save's receiver), its error, the Config it returned, the steps it
\* ran and those whose file-system call failed, whether it started with the
\* config file absent or empty, and whether it changed the file system
NoCall ==
  [op |-> "none", loc |-> EmptyStr, perm |-> PermOpen, isDir |-> FALSE,
   arg |-> NewConfig, err |-> NoErr, config |-> NewConfig, steps |-> <<>>,
   failed |-> {}, fresh |-> FALSE, changed |-> FALSE]

\* what is kept of the call before the last one
Brief(call) ==
  [op |-> call.op, loc |-> call.loc, perm |-> call.perm, isDir |-> call.isDir,
   arg |-> call.arg, ok |-> call.err = NoErr, config |-> call.config,
   fresh |-> call.fresh, changed |-> call.changed]

Fresh(f, e) ==
  LET c == Entry(f, ConfigFilePath(e))
  IN c.kind = "absent" \/ (c.kind = "file" /\ c.data = EmptyData)

Init ==
  /\ env \in Envs
  /\ fs \in FileSystems(GetDefaultConfigHome(env), {TRUE}, ConfDatas, FALSE)
  /\ last = [call |-> NoCall, before |-> fs]
  /\ prev = Brief(NoCall)

\* one call of Load, of Save, of GetDefaultFilterCmd, of getOrCreatePath
LoadStep ==
  \E flt \in LoadFaults :
    \E r \in {Load(fs, env, flt)} :
       /\ fs' = r.fs
       /\ last' = [call |-> [NoCall EXCEPT !.op = "Load", !.err = r.err,
                                           !.config = r.config,
                                           !.steps = r.steps,
                                           !.failed = r.failed,
                                           !.fresh = Fresh(fs, env),
                                           !.changed = r.fs # fs],
                   before |-> fs]
       /\ UNCHANGED env

SaveStep ==
  \E c \in Configs, flt \in SaveFaults :
    \E r \in {Save(fs, env, c, flt)} :
       /\ fs' = r.fs
       /\ last' = [call |-> [NoCall EXCEPT !.op = "Save", !.arg = c,
                                           !.err = r.err,
                                           !.changed = r.fs # fs],
                   before |-> fs]
       /\ UNCHANGED env

GetDefaultFilterCmdStep ==
  LET r == GetDefaultFilterCmd(env)
  IN /\ last' = [call |-> [NoCall EXCEPT !.op = "GetDefaultFilterCmd",
                                         !.err = r.err, !.loc = r.path],
                 before |-> fs]
     /\ UNCHANGED <<env, fs>>

getOrCreatePathStep ==
  \E loc \in DOMAIN fs, perm \in Perms, isDir \in BOOLEAN, flt \in PathFaults :
    \E r \in {getOrCreatePath(fs, loc, perm, isDir, flt)} :
       /\ fs' = r.fs
       /\ last' = [call |-> [NoCall EXCEPT !.op = "getOrCreatePath",
                                           !.loc = loc, !.perm = perm,
                                           !.isDir = isDir, !.err = r.err,
                                           !.changed = r.fs # fs],
                   before |-> fs]
       /\ UNCHANGED env

-----------------------------------------------------------------------------
(* Single calls: every environment, one call looked at at a time.          *)

LoadCall == LoadStep /\ UNCHANGED prev

GetDefaultFilterCmdCall == GetDefaultFilterCmdStep /\ UNCHANGED prev

Next == LoadCall \/ GetDefaultFilterCmdCall

Spec == Init /\ [][Next]_vars

-----------------------------------------------------------------------------
(* Properties of one Load call.                                            *)

LastLoad == last.call.op = "Load"
Returned == last.call.err = NoErr
ConfBefore == Entry(last.before, ConfigFilePath(env))
ConfAfter == Entry(fs, ConfigFilePath(env))
EmptyBefore == ConfBefore = File(EmptyData)
StepNames == [i \in 1..Len(last.call.steps) |-> last.call.steps[i].step]
RanStep(name) == \E i \in 1..Len(last.call.steps) : last.call.steps[i].step = name
ParseOnly == <<"configFile", "read">>
Resolves(name) == name \in env.PATH

\* the config file holds a JSON document that reads back as c
Holds(entry, c) ==
  entry.kind = "file" /\ entry.data.tag = "json" /\ Unmarshal(entry.data) = c

\* C1 as stated: after a successful Load() on an empty config file, all four
\* fields of the returned Config are non-empty, IsNew() is false, and the
\* config file holds exactly those four values.
C1_AllFourNonEmpty ==
  (LastLoad /\ EmptyBefore /\ Returned) =>
    /\ last.call.config.SnippetsFile # EmptyStr
    /\ last.call.config.SnippetsDir # EmptyStr
    /\ last.call.config.Editor # EmptyStr
    /\ last.call.config.FilterCmd # EmptyStr
    /\ ~IsNew(last.call.config)
    /\ Holds(ConfAfter, last.call.config)

\* C1 amended: after a successful Load() on an empty config file,
\* SnippetsFile and SnippetsDir are the non-empty default paths and IsNew()
\* is false; Editor is EDITOR's value when EDITOR is set (the empty string
\* included) and vim's path otherwise; FilterCmd is fzf's path when fzf
\* resolves and empty otherwise; the config file holds the JSON encoding of
\* the four values, or, when the write of the Save() step failed, the empty
\* or cut content that write left.
C1_Populated ==
  (LastLoad /\ EmptyBefore /\ Returned) =>
    /\ last.call.config.SnippetsFile =
         PathJoin(GetDefaultConfigHome(env), DEFAULT_SNIPPETS_FILE)
    /\ last.call.config.SnippetsDir =
         PathJoin(GetDefaultConfigHome(env), DEFAULT_SNIPPETS_DIR)
    /\ last.call.config.SnippetsFile # EmptyStr
    /\ last.call.config.SnippetsDir # EmptyStr
    /\ ~IsNew(last.call.config)
    /\ last.call.config.Editor =
         (IF env["EDITOR"].set THEN env["EDITOR"].value
          ELSE <<"/usr/bin", DEFAULT_EDITOR>>)
    /\ last.call.config.FilterCmd =
         (IF Resolves(DEFAULT_FILTER_CMD_FZF)
          THEN <<"/usr/bin", DEFAULT_FILTER_CMD_FZF>> ELSE EmptyStr)
    /\ \/ ConfAfter = File(MarshalIndent(last.call.config))
       \/ /\ "save" \in last.call.failed
          /\ ConfAfter \in {File(EmptyData), File(MalformedData)}

\* a successful Load() on an empty config file with EDITOR set to the empty
\* string and no fzf: Editor and FilterCmd are empty, and the file was written
C1_Witness ==
  /\ LastLoad /\ EmptyBefore /\ Returned
  /\ last.call.config.Editor = EmptyStr
  /\ last.call.config.FilterCmd = EmptyStr
  /\ ConfAfter = File(MarshalIndent(last.call.config))

\* C3 as stated: a Load() in which a directory creation, file creation, read
\* or write step fails returns an error.
C3_FailuresPropagated ==
  (LastLoad /\ last.call.failed # {}) => ~Returned

\* C4: on an empty config file, with EDITOR not set and vim not on PATH,
\* Load() fails and the config file is not written: it is still empty.
C4_NoEditorNoWrite ==
  (LastLoad /\ EmptyBefore /\ ~env["EDITOR"].set /\ ~Resolves(DEFAULT_EDITOR)) =>
    /\ ~Returned
    /\ ~RanStep("save")
    /\ ConfAfter = ConfBefore

\* the editor lookup was reached and failed the load
C4_Witness ==
  /\ LastLoad /\ EmptyBefore /\ ~env["EDITOR"].set /\ ~Resolves(DEFAULT_EDITOR)
  /\ RanStep("editor")
  /\ last.call.err = "could not find vim (default) in $PATH"
  /\ Entry(fs, PathJoin(GetDefaultConfigHome(env), DEFAULT_SNIPPETS_DIR)).kind = "dir"

PopulationSteps == {"snippetsFile", "snippetsDir", "editor", "filterCmd"}

\* C5: on an empty config file, when neither peco nor fzf resolves and every
\* step before the filter lookup succeeded, Load() returns a Config with an
\* empty FilterCmd; and a Load() that returns a Config ran no
\* default-population step with an error other than the missing-filter
\* sentinel of the filter lookup.
C5_OnlySentinelTolerated ==
  /\ (LastLoad /\ EmptyBefore /\ RanStep("filterCmd")
        /\ ~Resolves(DEFAULT_FILTER_CMD_PECO) /\ ~Resolves(DEFAULT_FILTER_CMD_FZF)) =>
       (Returned /\ last.call.config.FilterCmd = EmptyStr /\ RanStep("save"))
  /\ (LastLoad /\ Returned) =>
       \A i \in 1..Len(last.call.steps) :
         (last.call.steps[i].step \in PopulationSteps
            /\ last.call.steps[i].err # NoErr) =>
           /\ last.call.steps[i].step = "filterCmd"
           /\ last.call.steps[i].err = MissingDefaultFilterCmdError

\* Load() returned a Config although the filter lookup gave the sentinel
C5_Witness ==
  /\ LastLoad /\ EmptyBefore /\ Returned
  /\ ~Resolves(DEFAULT_FILTER_CMD_PECO) /\ ~Resolves(DEFAULT_FILTER_CMD_FZF)
  /\ \E i \in 1..Len(last.call.steps) :
       last.call.steps[i] = Ran("filterCmd", MissingDefaultFilterCmdError)
  /\ last.call.config.FilterCmd = EmptyStr

\* C6: on a config file holding malformed JSON, Load() fails with the error
\* of the JSON load helper (the parse error, when the read itself succeeded),
\* runs no default-population step and no Save(), and leaves the file system,
\* the config file included, as it was.
C6_MalformedUntouched ==
  (LastLoad /\ ConfBefore = File(MalformedData)) =>
    /\ ~Returned
    /\ StepNames = ParseOnly
    /\ last.call.err = last.call.steps[2].err
    /\ "read" \notin last.call.failed =>
         last.call.err = "unexpected end of JSON input"
    /\ fs = last.before

C6_Witness ==
  /\ LastLoad /\ ConfBefore = File(MalformedData)
  /\ last.call.err = "unexpected end of JSON input"
  /\ ConfAfter = File(MalformedData)

AllSet(d) ==
  d.tag = "json" /\ d.snippets_file # <<>> /\ d.snippets_dir # <<>>
    /\ d.editor # <<>> /\ d.filter_cmd # <<>>

\* C7: on a config file whose JSON sets all four fields to non-empty values,
\* Load() runs only the parse, leaves the file system as it was (nothing is
\* created, nothing is written) and, unless reading the file failed, returns
\* a Config with exactly the four values of the file.
C7_ParsedAsIs ==
  (LastLoad /\ ConfBefore.kind = "file" /\ AllSet(ConfBefore.data)) =>
    /\ StepNames = ParseOnly
    /\ fs = last.before
    /\ \/ "read" \in last.call.failed
       \/ Returned /\ last.call.config = Unmarshal(ConfBefore.data)

\* the four values came back and the snippets file was not created
C7_Witness ==
  /\ LastLoad /\ ConfBefore.kind = "file" /\ AllSet(ConfBefore.data)
  /\ Returned
  /\ last.call.config =
       [SnippetsFile |-> <<"/a">>, SnippetsDir |-> <<"/b">>,
        Editor |-> <<"/c">>, FilterCmd |-> <<"/d">>]
  /\ Entry(fs, PathJoin(GetDefaultConfigHome(env), DEFAULT_SNIPPETS_FILE)).kind = "absent"

\* C10: GetDefaultFilterCmd returns fzf's path when fzf resolves and the
\* missing-filter sentinel when it does not, whether or not peco resolves.
C10_FzfDecides ==
  last.call.op = "GetDefaultFilterCmd" =>
    IF Resolves(DEFAULT_FILTER_CMD_FZF)
    THEN last.call.err = NoErr /\ last.call.loc = <<"/usr/bin", DEFAULT_FILTER_CMD_FZF>>
    ELSE last.call.err = MissingDefaultFilterCmdError /\ last.call.loc = EmptyStr

\* peco resolves, fzf does not: peco's path is discarded
C10_Witness ==
  /\ last.call.op = "GetDefaultFilterCmd"
  /\ Resolves(DEFAULT_FILTER_CMD_PECO) /\ ~Resolves(DEFAULT_FILTER_CMD_FZF)
  /\ last.call.err = MissingDefaultFilterCmdError

-----------------------------------------------------------------------------
(* Sequences of Save and Load calls, with the call before the last one     *)
(* remembered.                                                             *)

SeqEnvs ==
  { e \in Envs :
      /\ e.GOOS = "linux" /\ ~e["XDG_CONFIG_HOME"].set
      /\ e.PATH \in {{}, Executables}
      /\ e["EDITOR"] \in {Unset, SetTo(<<"/opt", BadByte>>)} }

InitSeq ==
  /\ env \in SeqEnvs
  /\ fs \in FileSystems(GetDefaultConfigHome(env), {TRUE}, ConfDatas, FALSE)
  /\ last = [call |-> NoCall, before |-> fs]
  /\ prev = Brief(NoCall)

LoadThen == LoadStep /\ prev' = Brief(last.call)

SaveThen == SaveStep /\ prev' = Brief(last.call)

NextSeq == LoadThen \/ SaveThen

SpecSeq == InitSeq /\ [][NextSeq]_vars

-----------------------------------------------------------------------------
(* Sequences of getOrCreatePath calls on any path below the config home,   *)
(* with any permissions, on file systems whose directories may be closed   *)
(* to the process and whose entries may be of the unexpected kind.         *)

PathEnvs ==
  { e \in Envs :
      /\ e.GOOS = "linux" /\ ~e["XDG_CONFIG_HOME"].set
      /\ e.PATH = {} /\ e["EDITOR"] = Unset }

PathDatas ==
  { EmptyData,
    [tag |-> "json", snippets_file |-> <<"/a">>, snippets_dir |-> <<"/b">>,
     editor |-> <<"/c">>, filter_cmd |-> <<"/d">>] }

InitPath ==
  /\ env \in PathEnvs
  /\ fs \in FileSystems(GetDefaultConfigHome(env), {TRUE, FALSE}, PathDatas, FALSE)
  /\ last = [call |-> NoCall, before |-> fs]
  /\ prev = Brief(NoCall)

getOrCreatePathThen == getOrCreatePathStep /\ prev' = Brief(last.call)

NextPath == getOrCreatePathThen

SpecPath == InitPath /\ [][NextPath]_vars

-----------------------------------------------------------------------------
(* Properties of two calls in a row.                                       *)

ValidUTF8(c) ==
  \A str \in {c.SnippetsFile, c.SnippetsDir, c.Editor, c.FilterCmd} :
    \A i \in 1..Len(str) : str[i] # BadByte

\* C2 as stated: for every Config c, if c.Save() succeeds, the Config the
\* next Load() returns has c's four fields.
C2_RoundTripAll ==
  (prev.op = "Save" /\ prev.ok /\ LastLoad /\ Returned) =>
    last.call.config = prev.arg

\* C2 amended: for every Config c that is not new (some field is non-empty)
\* and whose fields are valid UTF-8, if c.Save() succeeds, the next Load()
\* runs only the parse and, unless reading the file fails, returns a Config
\* with c's four fields.
C2_RoundTripNotNew ==
  (prev.op = "Save" /\ prev.ok /\ LastLoad
     /\ ~IsNew(prev.arg) /\ ValidUTF8(prev.arg)) =>
    /\ StepNames = ParseOnly
    /\ \/ "read" \in last.call.failed
       \/ Returned /\ last.call.config = prev.arg

\* a Config with quotes in one field and another field empty came back
C2_Witness ==
  /\ prev.op = "Save" /\ prev.ok /\ prev.changed
  /\ prev.arg.Editor = <<"/my ", Quote, "ed", Quote>>
  /\ prev.arg.FilterCmd = EmptyStr
  /\ LastLoad /\ Returned
  /\ last.call.config = prev.arg

\* C8 as stated: after a Load() that started from an absent or empty config
\* file and returned a Config, the next Load() (its read not failing) returns
\* the same four values from the parse alone, IsNew() false on them, and
\* changes nothing on disk.
C8_NextLoadShortCircuits ==
  (prev.op = "Load" /\ prev.ok /\ prev.fresh /\ LastLoad
     /\ "read" \notin last.call.failed) =>
    /\ Returned
    /\ last.call.config = prev.config
    /\ ~IsNew(last.call.config)
    /\ StepNames = ParseOnly
    /\ fs = last.before

SameArgs ==
  /\ last.call.loc = prev.loc
  /\ last.call.perm = prev.perm
  /\ last.call.isDir = prev.isDir

\* C9: a getOrCreatePath call that follows a call with the same arguments
\* that returned without error returns without error and changes nothing;
\* and a call on a location that exists returns without error and changes
\* nothing.
C9_Idempotent ==
  /\ (last.call.op = "getOrCreatePath" /\ prev.op = "getOrCreatePath"
        /\ prev.ok /\ SameArgs) =>
       (last.call.err = NoErr /\ fs = last.before)
  /\ (last.call.op = "getOrCreatePath"
        /\ Entry(last.before, last.call.loc).kind # "absent") =>
       (last.call.err = NoErr /\ fs = last.before)

\* the first call made a directory and returned without error, the second
\* call with the same arguments found it
C9_Witness ==
  /\ last.call.op = "getOrCreatePath" /\ prev.op = "getOrCreatePath"
  /\ prev.ok /\ prev.changed /\ SameArgs
  /\ last.call.isDir
  /\ last.call.err = NoErr
  /\ Entry(fs, last.call.loc).kind = "dir"

=============================================================================
